---- MODULE Spec2Model ----
(***************************************************************************)
(* Model of Sources/SharedCore/cpp/ParquetReader.cpp: the process-wide     *)
(* reader cache (reader_cache, cache_mutex, get_cached_reader,             *)
(* clear_parquet_cache, clear_all_parquet_cache) and the two queries       *)
(* read_parquet_schema and read_parquet_data, called by several threads.   *)
(***************************************************************************)
EXTENDS Integers, Sequences, FiniteSets, TLC

(***************************************************************************)
(* Bounds of the model.                                                    *)
(***************************************************************************)
\* calls the host threads start in one behaviour
MaxCalls == 4
\* row groups of a file
MaxGroups == 3
\* rows of one row group (0 = an empty row group)
MaxGroupRows == 2
\* the small start_row / num_rows arguments (the large ones are near INT_MAX)
MaxStart == 6
MaxNum == 3

(***************************************************************************)
(* Program constants.                                                      *)
(***************************************************************************)
\* the largest and smallest `int` (start_row, num_rows, TableData::row_count
\* are 32-bit ints); TLC's own integers have the same range, so every sum
\* below is arranged to stay inside it
INT_MAX == 2147483647
INT_MIN == -INT_MAX - 1

Min(a, b) == IF a < b THEN a ELSE b
Max(a, b) == IF a > b THEN a ELSE b

Threads == {"t1", "t2"}
Paths == {"a.parquet", "b.parquet"}

\* the failure sentinel of read_parquet_schema / read_parquet_data
NULLPTR == [kind |-> "nullptr"]
\* the null result of get_cached_reader
NullReader == 0
\* no entry in reader_cache
NoEntry == 0

RECURSIVE SumSeq(_)
SumSeq(s) == IF s = <<>> THEN 0 ELSE Head(s) + SumSeq(Tail(s))

(***************************************************************************)
(* Files.  A readable Parquet file is its sequence of row-group row counts *)
(* (file_metadata->RowGroup(rg)->num_rows()); its rows are numbered        *)
(* 0 .. total_rows-1 in file order.  Every file has the columns Fields.    *)
(***************************************************************************)
Fields ==
    << [name |-> "id",   type |-> "int64", id |-> "INT64"],
       [name |-> "ok",   type |-> "bool",  id |-> "BOOL"],
       [name |-> "tags", type |-> "list<item: string>", id |-> "LIST"] >>

\* file_metadata->num_rows()
TotalRows(file) == SumSeq(file.groups)
\* file_metadata->num_row_groups()
NumRowGroups(file) == Len(file.groups)
\* file_metadata->RowGroup(rg)->num_rows(), rg counted from 0
RowGroupNumRows(file, rg) == file.groups[rg + 1]

\* chunk->IsNull(i) for file row r, column c (the content of the test files)
CellIsNull(r, c) == c >= 2 /\ (r + c) % 3 = 0
\* array->Value(i) for file row r, column c
CellValue(r, c) ==
    CASE Fields[c].id = "INT64" -> r
      [] Fields[c].id = "BOOL"  -> (r % 2 = 0)
      [] OTHER                  -> <<r>>

(***************************************************************************)
(* The conversion of one cell to its string, lines 196-277.  A cell is     *)
(* [id, null, value]: chunk->type_id(), chunk->IsNull(i), array->Value(i). *)
(* A time_t is held as [day, sec], standing for day * 86400 + sec with     *)
(* 0 <= sec < 86400, which is how gmtime splits it; a 64-bit value of a    *)
(* TIMESTAMP or DATE64 cell is held as [neg, units, frac], standing for    *)
(* +-(units * unit + frac) with 0 <= frac < unit, unit the divisor of      *)
(* lines 243 and 265.  DOUBLE and FLOAT values are whole numbers of less   *)
(* than seven digits, which "%.6g" prints as the digits of the number.     *)
(***************************************************************************)
\* line 254: the seconds of a day
SecondsPerDay == 86400

NoTime == [day |-> 0, sec |-> -1]
TimeT(seconds) == [day |-> seconds \div SecondsPerDay, sec |-> seconds % SecondsPerDay]

\* std::gmtime: year, month and day of the proleptic Gregorian calendar for
\* the day number z counted from 1970-01-01
CivilFromDays(z) ==
    LET a   == z \div 146097
        b   == (z % 146097) + 719468
        era == a + (b \div 146097)
        doe == b % 146097
        yoe == (doe - (doe \div 1460) + (doe \div 36524) - (doe \div 146096)) \div 365
        doy == doe - (365 * yoe + (yoe \div 4) - (yoe \div 100))
        mp  == (5 * doy + 2) \div 153
        d   == doy - ((153 * mp + 2) \div 5) + 1
        m   == IF mp < 10 THEN mp + 3 ELSE mp - 9
        y   == yoe + era * 400
    IN  [year |-> IF m <= 2 THEN y + 1 ELSE y, month |-> m, day |-> d]

\* "%m", "%d", "%H", "%M", "%S": two digits
Pad2(n) == IF n < 10 THEN "0" \o ToString(n) ELSE ToString(n)

\* strftime(buffer, ..., "%Y-%m-%d", &tm) for tm = *gmtime(&seconds), for the
\* years of four and more digits
FormatDate(seconds) ==
    LET tm == CivilFromDays(seconds.day)
    IN  ToString(tm.year) \o "-" \o Pad2(tm.month) \o "-" \o Pad2(tm.day)

\* strftime(buffer, ..., "%Y-%m-%d %H:%M:%S", &tm)
FormatDateTime(seconds) ==
    FormatDate(seconds) \o " " \o Pad2(seconds.sec \div 3600) \o ":"
        \o Pad2((seconds.sec % 3600) \div 60) \o ":" \o Pad2(seconds.sec % 60)

\* lines 243 and 265: timestamp / 1000000 and millis / 1000 are int64
\* divisions, which round toward zero
DivUnits(v) == TimeT(IF v.neg THEN -v.units ELSE v.units)

\* line 254: days * 86400 does not fit an int (both operands are int)
MulOverflows(days) ==
    \/ days > INT_MAX \div SecondsPerDay
    \/ days < -(INT_MAX \div SecondsPerDay)

\* days * 86400 reduced modulo 2^32 into the int range; 86400 = 128 * 27 * 25
WrapMul(days) ==
    LET u == (((((days % (2^25)) * 25) % (2^25)) * 27) % (2^25))
    IN  IF u >= 2^24 THEN (u - 2^25) * 128 ELSE u * 128

\* line 254: time_t seconds = days * 86400, an int multiplication converted
\* to time_t afterwards.  Signed overflow is undefined: the product wraps to
\* 32 bits, or (wide) it is the product of a 64-bit multiplication
Date32Seconds(days, wide) ==
    IF MulOverflows(days) /\ ~wide
    THEN TimeT(WrapMul(days))
    ELSE [day |-> days, sec |-> 0]

SupportedTypes == { "STRING", "INT64", "INT32", "DOUBLE", "FLOAT", "BOOL",
                    "TIMESTAMP", "DATE32", "DATE64" }

\* lines 202-277: the switch on chunk->type_id() for a cell that is not null
StringifyByType(cell, wide) ==
    CASE cell.id = "STRING" -> [value |-> cell.value, seconds |-> NoTime]
      [] cell.id \in { "INT64", "INT32", "DOUBLE", "FLOAT" } ->
            [value |-> ToString(cell.value), seconds |-> NoTime]
      [] cell.id = "BOOL" ->
            [value |-> IF cell.value THEN "true" ELSE "false", seconds |-> NoTime]
      [] cell.id = "TIMESTAMP" ->
            [value |-> FormatDateTime(DivUnits(cell.value)),
             seconds |-> DivUnits(cell.value)]
      [] cell.id = "DATE32" ->
            [value |-> FormatDate(Date32Seconds(cell.value, wide)),
             seconds |-> Date32Seconds(cell.value, wide)]
      [] cell.id = "DATE64" ->
            [value |-> FormatDate(DivUnits(cell.value)),
             seconds |-> DivUnits(cell.value)]
      [] OTHER -> [value |-> "UNSUPPORTED", seconds |-> NoTime]

\* lines 198-277 with the switch on the type taken before the null test
StringifyTypeFirst(cell, wide) ==
    IF cell.id \in SupportedTypes
    THEN IF cell.null THEN [value |-> "NULL", seconds |-> NoTime]
         ELSE StringifyByType(cell, wide)
    ELSE [value |-> "UNSUPPORTED", seconds |-> NoTime]

\* lines 198-277: value, the string of a cell, and seconds, the time_t
\* handed to gmtime on the way (NoTime when there is none)
Stringify(cell, wide) ==
    IF cell.null THEN [value |-> "NULL", seconds |-> NoTime]
    ELSE StringifyByType(cell, wide)

\* lines 196-277: the string of one cell of the test files
StringifyCell(r, c) ==
    Stringify([id |-> Fields[c].id, null |-> CellIsNull(r, c),
               value |-> CellValue(r, c)], FALSE).value

StringifyRow(r, ncols) == [c \in 1 .. ncols |-> StringifyCell(r, c)]

\* the file rows of row group rg (counted from 0), in order
RowsOfGroup(file, rg) ==
    LET first == SumSeq(SubSeq(file.groups, 1, rg))
    IN  [i \in 1 .. RowGroupNumRows(file, rg) |-> first + i - 1]

RECURSIVE ConcatGroups(_, _)
ConcatGroups(file, rgs) ==
    IF rgs = <<>> THEN <<>>
    ELSE RowsOfGroup(file, Head(rgs)) \o ConcatGroups(file, Tail(rgs))

\* reader->ReadRowGroups(row_groups_to_read, &table): the rows of the table
ReadRowGroups(file, rgs) == ConcatGroups(file, rgs)
\* reader->ReadTable(&table)
ReadTable(file) == [i \in 1 .. TotalRows(file) |-> i - 1]
\* table->Slice(offset, length)
Slice(table, offset, length) ==
    SubSeq(table, offset + 1, Min(offset + length, Len(table)))

(***************************************************************************)
(* read_parquet_data, lines 107-285, on an open reader.                    *)
(***************************************************************************)
\* a + b does not fit an int, for the arguments a = start_row >= 0 and
\* b = num_rows > 0 that the requests of this model pass
AddOverflows(a, b) == a > INT_MAX - b

\* a + b reduced modulo 2^32 into the int range, for a + b above INT_MAX
WrapAdd(a, b) == ((a - INT_MAX) + (b - INT_MAX)) - 2

\* line 113: start_row + num_rows is an int addition, converted to int64
\* only afterwards; when the sum does not fit an int the behaviour is
\* undefined: the build either wraps it to 32 bits or adds in a 64-bit
\* register (wide), and then the sum, above INT_MAX, is above total_rows
EndRow(file, start_row, num_rows, wide) ==
    IF AddOverflows(start_row, num_rows)
    THEN IF wide THEN TotalRows(file)
         ELSE Min(WrapAdd(start_row, num_rows), TotalRows(file))
    ELSE Min(start_row + num_rows, TotalRows(file))

\* line 116: the int64 difference end_row - start_row stored into the int
\* row_count, that is reduced modulo 2^32 (start_row >= 0)
RowCount(end_row, start_row) ==
    IF end_row >= INT_MIN + start_row
    THEN end_row - start_row
    ELSE ((((end_row + INT_MAX) + 1) - start_row) + INT_MAX) + 1

\* line 132 with >= for >: a row group that ends where the window starts is
\* taken too
GroupNeededInclusive(current_row, rg_row_count, start_row, end_row) ==
    current_row + rg_row_count >= start_row /\ current_row < end_row

\* line 132
GroupNeeded(current_row, rg_row_count, start_row, end_row) ==
    current_row + rg_row_count > start_row /\ current_row < end_row

\* lines 128-142: the loop from row group rg on; acc is row_groups_to_read,
\* the result also counts the row groups the loop looked at
RECURSIVE SelectRowGroups(_, _, _, _, _, _)
SelectRowGroups(file, rg, current_row, start_row, end_row, acc) ==
    IF rg >= NumRowGroups(file) THEN [rgs |-> acc, scanned |-> rg]
    ELSE LET rg_row_count == RowGroupNumRows(file, rg)
             acc2 == IF GroupNeeded(current_row, rg_row_count, start_row, end_row)
                     THEN Append(acc, rg) ELSE acc
             next_row == current_row + rg_row_count
         IN  IF next_row >= end_row
             THEN [rgs |-> acc2, scanned |-> rg + 1]
             ELSE SelectRowGroups(file, rg + 1, next_row, start_row, end_row, acc2)

\* lines 165-175: the loop over row_groups_to_read from position k on
RECURSIVE OffsetInTable(_, _, _, _, _)
OffsetInTable(file, rgs, k, current_row, start_row) ==
    IF k > Len(rgs) THEN 0
    ELSE LET rg_row_count == RowGroupNumRows(file, rgs[k])
         IN  IF current_row + rg_row_count > start_row
             THEN start_row - current_row
             ELSE OffsetInTable(file, rgs, k + 1, current_row + rg_row_count, start_row)

\* line 146 with the whole table read whatever was selected
WholeTableAlways(file, rgs) == TRUE

\* line 146: which read is issued
WholeTable(file, rgs) == Len(rgs) = NumRowGroups(file)

\* the row groups a physical read touches: all of them for ReadTable
\* (line 148), the ones passed for ReadRowGroups (line 155)
ReadGroups(file, rgs, whole) ==
    IF whole THEN [i \in 1 .. NumRowGroups(file) |-> i - 1] ELSE rgs

\* lines 149-152 and 156-159 with the TableData handed out as it stands
\* when the read fails
FailedReadKeepsData(row_count) ==
    [kind |-> "TableData", row_count |-> row_count, column_count |-> 0,
     allocated |-> FALSE, data |-> <<>>, refs |-> {}]

\* lines 149-152 and 156-159: a read whose status is not ok deletes the
\* TableData and returns nullptr
FailedRead(row_count) == [kind |-> "nullptr"]

\* lines 183-283: the rows of the grid that the conversion loops assign; the
\* grid has row_count rows, the rows after these stay unassigned
\* lines 88, 89 and 279 with the c_str() pointers stored as they are: the
\* strings of a result lie in memory of the reader
ResultRefsBorrowed == {"reader"}

\* lines 88, 89 and 279: every string of a result is a strdup copy and the
\* structs are allocated with new (lines 81, 105), so a result holds no
\* pointer into the reader it was read from
ResultRefs == {}

FillGrid(table, row_count, ncols) ==
    [i \in 1 .. Min(Len(table), row_count) |-> StringifyRow(table[i], ncols)]

\* what a call leaves when it never plans a read
NoPlan == [end_row |-> 0, rgs |-> <<>>, scanned |-> 0, read |-> "none",
           reads |-> 0, read_groups |-> <<>>, status |-> "none",
           read_rows |-> 0, sliced |-> FALSE, offset |-> 0]

\* the whole of lines 107-285: the TableData returned (or NULLPTR) in ret,
\* and the locals of the call in plan.  data holds the rows of the grid that
\* were assigned, in order; allocated is data != nullptr.  In plan, reads
\* counts the calls of ReadTable / ReadRowGroups, read_groups are the row
\* groups that call touches and status is its arrow::Status
ReadParquetData(file, start_row, num_rows, wide, read_ok) ==
    LET end_row == EndRow(file, start_row, num_rows, wide)
        row_count == RowCount(end_row, start_row)
        sel == SelectRowGroups(file, 0, 0, start_row, end_row, <<>>)
        whole == WholeTable(file, sel.rgs)
        table == IF whole THEN ReadTable(file) ELSE ReadRowGroups(file, sel.rgs)
        sliced == Len(table) > row_count
        offset == IF sliced THEN OffsetInTable(file, sel.rgs, 1, 0, start_row) ELSE 0
        final == IF sliced THEN Slice(table, offset, row_count) ELSE table
        plan == [end_row |-> end_row, rgs |-> sel.rgs, scanned |-> sel.scanned,
                 read |-> IF whole THEN "ReadTable" ELSE "ReadRowGroups",
                 reads |-> 1, read_groups |-> ReadGroups(file, sel.rgs, whole),
                 status |-> IF read_ok THEN "ok" ELSE "failed",
                 read_rows |-> Len(table), sliced |-> sliced, offset |-> offset]
    IN  IF row_count <= 0
        THEN [ret |-> [kind |-> "TableData", row_count |-> row_count,
                       column_count |-> 0, allocated |-> FALSE, data |-> <<>>,
                       refs |-> {}],
              plan |-> [NoPlan EXCEPT !.end_row = end_row]]
        ELSE IF ~read_ok
        THEN [ret |-> FailedRead(row_count),
              plan |-> [plan EXCEPT !.read_rows = 0, !.sliced = FALSE, !.offset = 0]]
        ELSE [ret |-> [kind |-> "TableData", row_count |-> row_count,
                       column_count |-> Len(Fields), allocated |-> TRUE,
                       data |-> FillGrid(final, row_count, Len(Fields)),
                       refs |-> ResultRefs],
              plan |-> plan]

\* lines 75-92: the SchemaInfo of an open reader
ReadSchema(file) ==
    [kind |-> "SchemaInfo", column_count |-> Len(Fields), row_count |-> TotalRows(file),
     columns |-> [i \in 1 .. Len(Fields) |->
                     [name |-> Fields[i].name, type |-> Fields[i].type]],
     refs |-> ResultRefs]

(***************************************************************************)
(* What the file system holds for a path when get_cached_reader opens it.  *)
(***************************************************************************)
\* MemoryMappedFile::Open fails, builder.Open fails, builder.Build fails,
\* or one of them throws
OpenFailures ==
    { [ok |-> FALSE, why |-> w] : w \in {"missing", "invalid", "build", "throw"} }

RECURSIVE SeqsUpTo(_, _)
SeqsUpTo(S, n) ==
    IF n = 0 THEN {<<>>}
    ELSE LET shorter == SeqsUpTo(S, n - 1)
         IN  shorter \cup {Append(q, x) : q \in shorter, x \in S}

\* every readable file within the bounds
AllFiles ==
    { [ok |-> TRUE, groups |-> g] : g \in SeqsUpTo(0 .. MaxGroupRows, MaxGroups) }
\* the file of the scenarios: 10 row groups of 100 rows each
ScenarioFile ==
    [ok |-> TRUE, groups |-> [i \in 1 .. 10 |-> 100]]
\* the files of the multi-threaded specification
FewFiles ==
    { [ok |-> TRUE, groups |-> <<2, 1>>], [ok |-> TRUE, groups |-> <<1>>] }

\* the arguments of read_parquet_data
AllStarts == (0 .. MaxStart) \cup {250, 995, INT_MAX}
AllNums == (1 .. MaxNum) \cup {10, 50, INT_MAX}
FewStarts == {0, 1}
FewNums == {2}

(***************************************************************************)
(* State.                                                                  *)
(***************************************************************************)
VARIABLES
    reader_cache,   \* path -> index into readers of the cached reader, or NoEntry
    cache_mutex,    \* the thread holding cache_mutex, or "free"
    readers,        \* every FileReader built so far: [path, file, live];
                    \* live is FALSE once its map node and reader are destroyed
    pc,             \* thread -> where it stands
    call,           \* thread -> the call it is in: [op, path, start_row, num_rows]
    reader_ptr,     \* thread -> what get_cached_reader returned to it
    ret,            \* thread -> what its last finished call returned
    plan,           \* thread -> the locals of its last read_parquet_data
    calls,          \* calls started so far
    open_count,     \* path -> FileReaders built for it so far
    opens_since_clear, \* path -> FileReaders built for it since it was last cleared
    last_schema,    \* path -> the SchemaInfo last returned for it since it was
                    \* last cleared, or NoSchema
    cell,           \* the cell the conversion loop stands at: [id, null, value]
    converted       \* value and seconds of lines 196-277 for that cell

vars == << reader_cache, cache_mutex, readers, pc, call, reader_ptr, ret, plan,
           calls, open_count, opens_since_clear, last_schema, cell, converted >>

cell_vars == << cell, converted >>

NoCall == [op |-> "none", path |-> "", start_row |-> 0, num_rows |-> 0]
NoRet == [kind |-> "none"]
NoSchema == [kind |-> "none"]
NoCell == [id |-> "none", null |-> TRUE, value |-> 0]
NotConverted == [done |-> FALSE, value |-> "", seconds |-> NoTime]
\* a use of a destroyed reader is undefined: the call crashes, or returns
\* anything
Undefined == { [kind |-> "crash"], [kind |-> "garbage"], NULLPTR }

Init ==
    /\ reader_cache = [p \in Paths |-> NoEntry]
    /\ cache_mutex = "free"
    /\ readers = <<>>
    /\ pc = [t \in Threads |-> "idle"]
    /\ call = [t \in Threads |-> NoCall]
    /\ reader_ptr = [t \in Threads |-> NullReader]
    /\ ret = [t \in Threads |-> NoRet]
    /\ plan = [t \in Threads |-> NoPlan]
    /\ calls = 0
    /\ open_count = [p \in Paths |-> 0]
    /\ opens_since_clear = [p \in Paths |-> 0]
    /\ last_schema = [p \in Paths |-> NoSchema]
    /\ cell = NoCell
    /\ converted = NotConverted

(***************************************************************************)
(* The calls a host thread makes.                                          *)
(***************************************************************************)
Begin(t, c, first) ==
    /\ pc[t] = "idle"
    /\ calls < MaxCalls
    /\ calls' = calls + 1
    /\ call' = [call EXCEPT ![t] = c]
    /\ pc' = [pc EXCEPT ![t] = first]
    /\ ret' = [ret EXCEPT ![t] = NoRet]
    /\ plan' = [plan EXCEPT ![t] = NoPlan]
    /\ reader_ptr' = [reader_ptr EXCEPT ![t] = NullReader]
    /\ UNCHANGED cell_vars
    /\ UNCHANGED << reader_cache, cache_mutex, readers, open_count,
                    opens_since_clear, last_schema >>

\* read_parquet_schema(file_path), up to its call of get_cached_reader
CallSchema(t, p) ==
    Begin(t, [op |-> "schema", path |-> p, start_row |-> 0, num_rows |-> 0], "gcr_lock")

\* read_parquet_data(file_path, start_row, num_rows), up to its call of
\* get_cached_reader
CallData(t, p, s, n) ==
    Begin(t, [op |-> "data", path |-> p, start_row |-> s, num_rows |-> n], "gcr_lock")

\* clear_parquet_cache(file_path), up to the lock
CallClear(t, p) ==
    Begin(t, [op |-> "clear", path |-> p, start_row |-> 0, num_rows |-> 0], "clr_lock")

\* clear_all_parquet_cache(), up to the lock
CallClearAll(t) ==
    Begin(t, [op |-> "clear_all", path |-> "", start_row |-> 0, num_rows |-> 0], "all_lock")

\* std::lock_guard<std::mutex> lock(cache_mutex), lines 23, 319, 325
AfterLock(at) ==
    CASE at = "gcr_lock" -> "gcr_find"
      [] at = "clr_lock" -> "clr_erase"
      [] at = "all_lock" -> "all_clear"

\* lines 23, 319 and 325 with the mutex never waited for
MutexIgnored(m) == TRUE

\* lines 23, 319 and 325: the constructor of lock_guard returns once the
\* mutex is free
MutexFree(m) == m = "free"

Lock(t) ==
    /\ pc[t] \in {"gcr_lock", "clr_lock", "all_lock"}
    /\ MutexFree(cache_mutex)
    /\ cache_mutex' = t
    /\ pc' = [pc EXCEPT ![t] = AfterLock(pc[t])]
    /\ UNCHANGED cell_vars
    /\ UNCHANGED << reader_cache, readers, call, reader_ptr, ret, plan, calls,
                    open_count, opens_since_clear, last_schema >>

(***************************************************************************)
(* get_cached_reader, lines 22-65, with cache_mutex held.                  *)
(***************************************************************************)
\* lines 26-28 with the lookup never finding the entry
CacheHitNever(cache, p) == FALSE

\* lines 26-28: it != reader_cache.end()
CacheHit(cache, p) == cache[p] # NoEntry

\* line 60 done before the status checks: a failed open leaves an entry
CacheInsertAlways(cache, p, f, h) == [cache EXCEPT ![p] = h]

\* line 60: reader_cache[path_str] = std::move(reader), reached only when
\* the open, the builder and the build all succeeded (lines 37, 44, 56)
CacheInsert(cache, p, f, h) ==
    IF f.ok THEN [cache EXCEPT ![p] = h] ELSE cache

\* the readers in H are destroyed (their unique_ptr is erased or overwritten)
Destroy(rs, H) ==
    [h \in DOMAIN rs |-> IF h \in H THEN [rs[h] EXCEPT !.live = FALSE] ELSE rs[h]]

\* lines 26-30: the lookup; a hit returns &(it->second) and releases the lock
Find(t) ==
    /\ pc[t] = "gcr_find"
    /\ IF CacheHit(reader_cache, call[t].path)
       THEN /\ reader_ptr' = [reader_ptr EXCEPT ![t] = reader_cache[call[t].path]]
            /\ cache_mutex' = "free"
            /\ pc' = [pc EXCEPT ![t] = "use"]
       ELSE /\ pc' = [pc EXCEPT ![t] = "gcr_open"]
            /\ UNCHANGED << reader_ptr, cache_mutex >>
    /\ UNCHANGED cell_vars
    /\ UNCHANGED << reader_cache, readers, call, ret, plan, calls, open_count,
                    opens_since_clear, last_schema >>

\* lines 32-64: the miss path, where f is what the file system holds for the
\* path; a failure returns nullptr, a success stores the reader and returns
\* &reader_cache[path_str]; both release the lock
\* lines 36-39, 43-46, 55-58 and 62-64 with the mutex left locked by the
\* returns of a failed open
LockGuardLeavesFailure(t, f) == IF f.ok THEN "free" ELSE t

\* line 23: cache_mutex after get_cached_reader has returned from an open
\* of f; the destructor of lock_guard unlocks it on every return and on the
\* way into catch (...)
LockGuardLeaves(t, f) == "free"

Open(t, f) ==
    /\ pc[t] = "gcr_open"
    /\ LET p == call[t].path
           h == Len(readers) + 1
           old == IF reader_cache[p] = NoEntry THEN {} ELSE {reader_cache[p]}
       IN  /\ reader_cache' = CacheInsert(reader_cache, p, f, h)
           /\ IF f.ok
              THEN /\ readers' = Append(Destroy(readers, old),
                                        [path |-> p, file |-> f, live |-> TRUE])
                   /\ reader_ptr' = [reader_ptr EXCEPT ![t] = h]
                   /\ open_count' = [open_count EXCEPT ![p] = @ + 1]
                   /\ opens_since_clear' = [opens_since_clear EXCEPT ![p] = @ + 1]
              ELSE /\ reader_ptr' = [reader_ptr EXCEPT ![t] = NullReader]
                   /\ UNCHANGED << readers, open_count, opens_since_clear >>
    /\ cache_mutex' = LockGuardLeaves(t, f)
    /\ pc' = [pc EXCEPT ![t] = "use"]
    /\ UNCHANGED cell_vars
    /\ UNCHANGED << call, ret, plan, calls, last_schema >>

(***************************************************************************)
(* The rest of read_parquet_schema (lines 70-92) and of read_parquet_data  *)
(* (lines 102-285), after get_cached_reader returned, without the lock.   *)
(***************************************************************************)
\* lines 70 and 102: !reader_ptr || !(*reader_ptr)
IsNullReader(ptr) == ptr = NullReader

Return(t, r, pl) ==
    /\ ret' = [ret EXCEPT ![t] = r]
    /\ plan' = [plan EXCEPT ![t] = pl]
    /\ pc' = [pc EXCEPT ![t] = "idle"]

UseSchema(t) ==
    /\ pc[t] = "use"
    /\ call[t].op = "schema"
    /\ IF IsNullReader(reader_ptr[t])
       THEN Return(t, NULLPTR, NoPlan) /\ UNCHANGED last_schema
       ELSE IF ~readers[reader_ptr[t]].live
       THEN (\E u \in Undefined : Return(t, u, NoPlan)) /\ UNCHANGED last_schema
       ELSE /\ Return(t, ReadSchema(readers[reader_ptr[t]].file), NoPlan)
            /\ last_schema' = [last_schema EXCEPT ![call[t].path] =
                                  ReadSchema(readers[reader_ptr[t]].file)]
    /\ UNCHANGED cell_vars
    /\ UNCHANGED << reader_cache, cache_mutex, readers, call, reader_ptr, calls,
                    open_count, opens_since_clear >>

\* wide: how the build adds start_row + num_rows when the sum overflows;
\* read_ok: whether ReadTable / ReadRowGroups returns an ok status
UseData(t, wide, read_ok) ==
    /\ pc[t] = "use"
    /\ call[t].op = "data"
    /\ IF IsNullReader(reader_ptr[t])
       THEN Return(t, NULLPTR, NoPlan)
       ELSE IF ~readers[reader_ptr[t]].live
       THEN \E u \in Undefined : Return(t, u, NoPlan)
       ELSE LET r == ReadParquetData(readers[reader_ptr[t]].file,
                                     call[t].start_row, call[t].num_rows,
                                     wide, read_ok)
            IN  Return(t, r.ret, r.plan)
    /\ UNCHANGED cell_vars
    /\ UNCHANGED << reader_cache, cache_mutex, readers, call, reader_ptr, calls,
                    open_count, opens_since_clear, last_schema >>

(***************************************************************************)
(* clear_parquet_cache and clear_all_parquet_cache, lines 318-327.         *)
(***************************************************************************)
\* line 321 with every entry removed
CacheEraseAll(cache, p) == [q \in DOMAIN cache |-> NoEntry]

\* line 321 left out
CacheEraseNothing(cache, p) == cache

\* line 321: reader_cache.erase(path_str)
CacheErase(cache, p) == [cache EXCEPT ![p] = NoEntry]
\* line 326: reader_cache.clear()
CacheClear(cache) == [p \in DOMAIN cache |-> NoEntry]

\* the readers a change of the cache from c1 to c2 destroys
Dropped(c1, c2) == { c1[p] : p \in {q \in DOMAIN c1 : c1[q] # c2[q]} } \ {NoEntry}

Void == [kind |-> "void"]

ClearErase(t) ==
    /\ pc[t] = "clr_erase"
    /\ reader_cache' = CacheErase(reader_cache, call[t].path)
    /\ readers' = Destroy(readers, Dropped(reader_cache, reader_cache'))
    /\ opens_since_clear' = [opens_since_clear EXCEPT ![call[t].path] = 0]
    /\ last_schema' = [last_schema EXCEPT ![call[t].path] = NoSchema]
    /\ cache_mutex' = "free"
    /\ Return(t, Void, NoPlan)
    /\ UNCHANGED cell_vars
    /\ UNCHANGED << call, reader_ptr, calls, open_count >>

ClearAll(t) ==
    /\ pc[t] = "all_clear"
    /\ reader_cache' = CacheClear(reader_cache)
    /\ readers' = Destroy(readers, Dropped(reader_cache, reader_cache'))
    /\ opens_since_clear' = [p \in Paths |-> 0]
    /\ last_schema' = [p \in Paths |-> NoSchema]
    /\ cache_mutex' = "free"
    /\ Return(t, Void, NoPlan)
    /\ UNCHANGED cell_vars
    /\ UNCHANGED << call, reader_ptr, calls, open_count >>

(***************************************************************************)
(* Specifications.                                                         *)
(***************************************************************************)
\* several threads calling every operation on a few files
Next ==
    \/ \E t \in Threads, p \in Paths : CallSchema(t, p)
    \/ \E t \in Threads, p \in Paths, s \in FewStarts, n \in FewNums : CallData(t, p, s, n)
    \/ \E t \in Threads, p \in Paths : CallClear(t, p)
    \/ \E t \in Threads : CallClearAll(t)
    \/ \E t \in Threads : Lock(t)
    \/ \E t \in Threads : Find(t)
    \/ \E t \in Threads, f \in FewFiles \cup OpenFailures : Open(t, f)
    \/ \E t \in Threads : UseSchema(t)
    \/ \E t \in Threads, wide \in BOOLEAN, read_ok \in BOOLEAN : UseData(t, wide, read_ok)
    \/ \E t \in Threads : ClearErase(t)
    \/ \E t \in Threads : ClearAll(t)

Spec == Init /\ [][Next]_vars

\* one thread reading every window of every file within the bounds
DataThread == "t1"
DataPath == "a.parquet"

NextData ==
    \/ \E s \in AllStarts, n \in AllNums : CallData(DataThread, DataPath, s, n)
    \/ Lock(DataThread)
    \/ Find(DataThread)
    \/ \E f \in AllFiles \cup {ScenarioFile} : Open(DataThread, f)
    \/ \E wide \in BOOLEAN, read_ok \in BOOLEAN : UseData(DataThread, wide, read_ok)

SpecData == Init /\ [][NextData]_vars

(***************************************************************************)
(* The same program with its scheduling: a thread that is inside a call    *)
(* and can take its next step takes it (the file open and the reads        *)
(* finish), and a thread that waits for cache_mutex gets it if the mutex   *)
(* is free again and again.  Nothing makes a caller start a call.          *)
(***************************************************************************)
FairFiles == { [ok |-> TRUE, groups |-> <<1>>] } \cup OpenFailures

\* the step of thread t that follows its taking of the mutex, up to the
\* return of the call
Proceed(t) ==
    \/ Find(t)
    \/ \E f \in FairFiles : Open(t, f)
    \/ UseSchema(t)
    \/ ClearErase(t)
    \/ ClearAll(t)

NextFair ==
    \/ \E t \in Threads, p \in Paths : CallSchema(t, p)
    \/ \E t \in Threads, p \in Paths : CallClear(t, p)
    \/ \E t \in Threads : CallClearAll(t)
    \/ \E t \in Threads : Lock(t)
    \/ \E t \in Threads : Proceed(t)

Fairness == \A t \in Threads : SF_vars(Lock(t)) /\ WF_vars(Proceed(t))

SpecFair == Init /\ [][NextFair]_vars /\ Fairness

(***************************************************************************)
(* The conversion of a cell on its own: the body of the loops of lines     *)
(* 189-283 applied to one cell of any type, null or not.                   *)
(***************************************************************************)
Int64Values == { 0, -7, 42, INT_MAX }
Date32Values == { 0, 1, -1, 11016, 19000, 20394, 24855, 24856, -24855, -24856,
                  100000, INT_MAX }
WideValues == { [neg |-> FALSE, units |-> 0, frac |-> 0],
                [neg |-> FALSE, units |-> 1700000000, frac |-> 5],
                [neg |-> TRUE, units |-> 0, frac |-> 5],
                [neg |-> TRUE, units |-> 86400, frac |-> 0] }

ValuesOf(id) ==
    CASE id = "STRING" -> { "", "abc", "NULL", "true" }
      [] id \in { "INT64", "DECIMAL128" } -> Int64Values
      [] id = "INT32" -> { 0, -1, INT_MIN }
      [] id \in { "DOUBLE", "FLOAT" } -> { 0, 3, -250000, 999999 }
      [] id = "BOOL" -> BOOLEAN
      [] id \in { "TIMESTAMP", "DATE64" } -> WideValues
      [] id = "DATE32" -> Date32Values
      [] id = "LIST" -> { <<>>, <<1, 2>> }
      [] OTHER -> { "ab" }

UnsupportedTypes == { "LIST", "DECIMAL128", "BINARY", "LARGE_STRING" }

CellInputs ==
    UNION { { [id |-> id, null |-> n, value |-> v] :
                n \in BOOLEAN, v \in ValuesOf(id) } :
            id \in SupportedTypes \cup UnsupportedTypes }

InitCell ==
    /\ reader_cache = [p \in Paths |-> NoEntry]
    /\ cache_mutex = "free"
    /\ readers = <<>>
    /\ pc = [t \in Threads |-> "idle"]
    /\ call = [t \in Threads |-> NoCall]
    /\ reader_ptr = [t \in Threads |-> NullReader]
    /\ ret = [t \in Threads |-> NoRet]
    /\ plan = [t \in Threads |-> NoPlan]
    /\ calls = 0
    /\ open_count = [p \in Paths |-> 0]
    /\ opens_since_clear = [p \in Paths |-> 0]
    /\ last_schema = [p \in Paths |-> NoSchema]
    /\ cell \in CellInputs
    /\ converted = NotConverted

\* lines 196-280: one pass of the loop body
ConvertCell(wide) ==
    /\ ~converted.done
    /\ cell # NoCell
    /\ LET r == Stringify(cell, wide)
       IN  converted' = [done |-> TRUE, value |-> r.value, seconds |-> r.seconds]
    /\ UNCHANGED << reader_cache, cache_mutex, readers, pc, call, reader_ptr,
                    ret, plan, calls, open_count, opens_since_clear,
                    last_schema, cell >>

NextCell == \E wide \in BOOLEAN : ConvertCell(wide)

SpecCell == InitCell /\ [][NextCell]_vars

(***************************************************************************)
(* Properties.                                                             *)
(***************************************************************************)
\* thread t has finished a read_parquet_data that returned a TableData
DataDone(t) ==
    pc[t] = "idle" /\ call[t].op = "data" /\ ret[t].kind = "TableData"
\* thread t has finished a read_parquet_data on a reader that was open and
\* not destroyed
DataRan(t) ==
    /\ pc[t] = "idle" /\ call[t].op = "data"
    /\ reader_ptr[t] # NullReader
    /\ ret[t].kind \in {"TableData", "nullptr"}
\* the file behind the reader thread t used
FileOf(t) == readers[reader_ptr[t]].file

\* the number of rows the window [start_row, start_row + num_rows) has in a
\* file of total rows
ExpectedRows(total, start_row, num_rows) ==
    IF start_row < total THEN Max(0, Min(num_rows, total - start_row)) ELSE 0

\* C1: every TableData returned has row_count = max(0, min(num_rows,
\* total_rows - start_row)) when start_row < total_rows and 0 otherwise, and
\* a call whose clamped window is empty returns a TableData, not the failure
\* sentinel.
C1_RowCountIsClampedWindow ==
    \A t \in Threads :
        /\ DataDone(t) =>
              ret[t].row_count =
                  ExpectedRows(TotalRows(FileOf(t)), call[t].start_row, call[t].num_rows)
        /\ (DataRan(t) /\ ExpectedRows(TotalRows(FileOf(t)), call[t].start_row,
                                       call[t].num_rows) = 0)
              => ret[t].kind = "TableData"

\* C1 without the requests whose start_row + num_rows overflows an int: a
\* start_row beyond the end of the file already gives a negative row_count
C1_WithoutOverflow ==
    \A t \in Threads :
        (DataDone(t) /\ ~AddOverflows(call[t].start_row, call[t].num_rows)) =>
            ret[t].row_count =
                ExpectedRows(TotalRows(FileOf(t)), call[t].start_row, call[t].num_rows)

\* the grid of a TableData has every row assigned and row i is file row
\* start_row + i
RowsAreFileRows(t) ==
    /\ Len(ret[t].data) = ret[t].row_count
    /\ \A i \in 1 .. Len(ret[t].data) :
          ret[t].data[i] = StringifyRow(call[t].start_row + (i - 1), ret[t].column_count)

\* C2: for every window that spans row-group boundaries (two or more row
\* groups are selected), the rows returned are those of reading the whole
\* file and slicing it to [start_row, end_row): row i of the result is file
\* row start_row + i.
C2_RowsEqualWholeFileSlice ==
    \A t \in Threads :
        (DataDone(t) /\ ret[t].row_count > 0 /\ Len(plan[t].rgs) >= 2)
            => RowsAreFileRows(t)

\* the strings a cell can hold
CellStrings ==
    {"NULL", "UNSUPPORTED", "true", "false"} \cup {ToString(i) : i \in 0 .. 1000}

\* C5: every TableData with row_count > 0 has each of its row_count x
\* column_count cells assigned a string.
C5_EveryCellAssigned ==
    \A t \in Threads :
        (DataDone(t) /\ ret[t].row_count > 0) =>
            /\ ret[t].allocated
            /\ Len(ret[t].data) = ret[t].row_count
            /\ \A i \in 1 .. Len(ret[t].data) :
                  /\ Len(ret[t].data[i]) = ret[t].column_count
                  /\ \A c \in 1 .. ret[t].column_count :
                        ret[t].data[i][c] \in CellStrings

\* C5 without the requests whose start_row + num_rows overflows an int
C5_WithoutOverflow ==
    \A t \in Threads :
        (DataDone(t) /\ ret[t].row_count > 0
           /\ ~AddOverflows(call[t].start_row, call[t].num_rows)) =>
            /\ ret[t].allocated
            /\ Len(ret[t].data) = ret[t].row_count
            /\ \A i \in 1 .. Len(ret[t].data) :
                  Len(ret[t].data[i]) = ret[t].column_count

\* thread t has finished a read_parquet_data that went on to select row
\* groups (its clamped row_count was positive)
Planned(t) ==
    pc[t] = "idle" /\ call[t].op = "data" /\ plan[t].read # "none"

\* the rows of the file before row group rg (counted from 0)
RowsBefore(file, rg) == SumSeq(SubSeq(file.groups, 1, rg))

\* the half-open intervals [lo1, hi1) and [lo2, hi2) have a row in common
Intersects(lo1, hi1, lo2, hi2) == Max(lo1, lo2) < Min(hi1, hi2)

\* the interval of row group rg intersects the window [start_row, end_row)
GroupInWindow(file, rg, start_row, end_row) ==
    Intersects(RowsBefore(file, rg), RowsBefore(file, rg) + RowGroupNumRows(file, rg),
               start_row, end_row)

\* an empty row group that lies strictly inside the window
EmptyGroupInside(file, rg, start_row, end_row) ==
    /\ RowGroupNumRows(file, rg) = 0
    /\ start_row < RowsBefore(file, rg)
    /\ RowsBefore(file, rg) < end_row

\* the indices 0 .. n-1 of the row groups that satisfy Test, ascending
GroupsWhere(file, Test(_)) ==
    SelectSeq([i \in 1 .. NumRowGroups(file) |-> i - 1], Test)

\* the number of row groups up to and including the first one at which the
\* running total reaches end_row, or all of them
ScanLength(file, end_row) ==
    LET stops == {k \in 1 .. NumRowGroups(file) : RowsBefore(file, k) >= end_row}
    IN  IF stops = {} THEN NumRowGroups(file)
        ELSE CHOOSE k \in stops : \A j \in stops : k <= j

C6_ScenarioWitness ==
    \E t \in Threads :
        /\ Planned(t) /\ FileOf(t) = ScenarioFile
        /\ call[t].start_row = 995 /\ call[t].num_rows = 50
        /\ plan[t].rgs = <<9>> /\ ret[t].kind = "TableData" /\ ret[t].row_count = 5

\* C7: the offset of the slice is start_row minus the rows before the first
\* selected row group; start_row = 250, num_rows = 10 on 10 groups of 100
\* rows selects group 2 only, with offset 50 and 10 rows.
C7_SliceOffset ==
    \A t \in Threads :
        /\ (Planned(t) /\ plan[t].sliced) =>
              plan[t].offset =
                  call[t].start_row - RowsBefore(FileOf(t), plan[t].rgs[1])
        /\ (DataDone(t) /\ FileOf(t) = ScenarioFile /\ call[t].start_row = 250
              /\ call[t].num_rows = 10) =>
              /\ plan[t].rgs = <<2>>
              /\ plan[t].offset = 50
              /\ ret[t].row_count = 10

\* the scenario of C7: group 2 is selected and 10 rows are returned, but the
\* offset is 0 and the rows are file rows 200-209
C7_ScenarioAsCoded ==
    \A t \in Threads :
        (DataDone(t) /\ FileOf(t) = ScenarioFile /\ call[t].start_row = 250
           /\ call[t].num_rows = 10) =>
            /\ plan[t].rgs = <<2>>
            /\ plan[t].offset = 0
            /\ ret[t].row_count = 10
            /\ ret[t].data[1][1] = "200"

\* thread t is inside a read_parquet_schema / read_parquet_data that got a
\* reader from get_cached_reader and has not finished with it
InFlight(t) == pc[t] = "use" /\ reader_ptr[t] # NullReader

\* C3: a call that has obtained its reader from the cache holds a reader
\* that is not destroyed, whatever clear_parquet_cache and
\* clear_all_parquet_cache do meanwhile.
C3_InFlightReaderStaysValid ==
    \A t \in Threads : InFlight(t) => readers[reader_ptr[t]].live

\* the readers of path p that are not destroyed
LiveReaders(p) ==
    {h \in DOMAIN readers : readers[h].path = p /\ readers[h].live}

\* C4: the cache holds at most one live reader per path; between two clears
\* of a path the file is opened at most once, and any two calls that hold a
\* live reader of the same path hold the same one.
C4_OneReaderPerPath ==
    /\ \A p \in Paths :
          /\ Cardinality(LiveReaders(p)) <= 1
          /\ reader_cache[p] # NoEntry => LiveReaders(p) = {reader_cache[p]}
          /\ reader_cache[p] = NoEntry => LiveReaders(p) = {}
          /\ opens_since_clear[p] <= 1
          /\ opens_since_clear[p] = Cardinality(LiveReaders(p))
    /\ \A t, u \in Threads :
          (/\ InFlight(t) /\ InFlight(u)
           /\ call[t].path = call[u].path
           /\ readers[reader_ptr[t]].live /\ readers[reader_ptr[u]].live)
              => reader_ptr[t] = reader_ptr[u]

\* two calls on the same path are in flight with the same reader, opened once
C4_Witness ==
    \E t, u \in Threads :
        /\ t # u /\ InFlight(t) /\ InFlight(u)
        /\ call[t].path = call[u].path
        /\ reader_ptr[t] = reader_ptr[u]
        /\ open_count[call[t].path] = 1

\* thread t returns from get_cached_reader in this step
AcquireReturns(t) == pc[t] \in {"gcr_find", "gcr_open"} /\ pc'[t] = "use"

\* C8: when the cache holds a reader for the path, get_cached_reader returns
\* that reader and opens nothing; and a read_parquet_schema on a live reader
\* returns the SchemaInfo last returned for the path since it was cleared.
C8_AcquireIdempotent ==
    [][\A t \in Threads :
          /\ (AcquireReturns(t) /\ reader_cache[call[t].path] # NoEntry) =>
                /\ reader_ptr'[t] = reader_cache[call[t].path]
                /\ reader_cache' = reader_cache
                /\ readers' = readers
                /\ open_count' = open_count
          /\ (/\ pc[t] = "use" /\ pc'[t] = "idle" /\ call[t].op = "schema"
              /\ ret'[t].kind = "SchemaInfo"
              /\ last_schema[call[t].path] # NoSchema)
                => ret'[t] = last_schema[call[t].path]
      ]_vars

\* both threads have finished a read_parquet_schema of the same path, with
\* the same reader and the same SchemaInfo, after one open
C8_Witness ==
    \E t, u \in Threads :
        /\ t # u /\ pc[t] = "idle" /\ pc[u] = "idle"
        /\ call[t].op = "schema" /\ call[u].op = "schema"
        /\ call[t].path = call[u].path
        /\ ret[t].kind = "SchemaInfo" /\ ret[t] = ret[u]
        /\ reader_ptr[t] = reader_ptr[u]
        /\ open_count[call[t].path] = 1

\* C9: clear_parquet_cache(path) leaves no entry for path and changes
\* nothing when there was none; clear_all_parquet_cache leaves the cache
\* empty; and a get_cached_reader that succeeds on a path with no reader
\* opened since its last clear builds a new reader, every earlier reader of
\* the path being destroyed.
C9_ClearForcesReopen ==
    [][\A t \in Threads :
          /\ (pc[t] = "clr_erase" /\ pc'[t] = "idle") =>
                /\ reader_cache'[call[t].path] = NoEntry
                /\ reader_cache[call[t].path] = NoEntry =>
                      (reader_cache' = reader_cache /\ readers' = readers)
          /\ (pc[t] = "all_clear" /\ pc'[t] = "idle") =>
                \A p \in Paths : reader_cache'[p] = NoEntry
          /\ (/\ AcquireReturns(t) /\ reader_ptr'[t] # NullReader
              /\ opens_since_clear[call[t].path] = 0) =>
                /\ reader_ptr'[t] = Len(readers) + 1
                /\ Len(readers') = Len(readers) + 1
                /\ open_count'[call[t].path] = open_count[call[t].path] + 1
                /\ \A h \in DOMAIN readers :
                      readers[h].path = call[t].path => ~readers'[h].live
      ]_vars

\* a path was opened, cleared and opened again
C9_Witness ==
    \E p \in Paths :
        /\ open_count[p] = 2
        /\ reader_cache[p] = 2
        /\ ~readers[1].live /\ readers[1].path = p
        /\ \E t \in Threads :
              pc[t] = "idle" /\ call[t].op = "clear" /\ call[t].path = p

\* C10: a get_cached_reader whose open fails returns nullptr and leaves the
\* cache as it was, without an entry for the path; read_parquet_schema and
\* read_parquet_data then return the failure sentinel; and a lookup of a
\* path without an entry goes on to open the file.
C10_FailedOpenNotCached ==
    [][\A t \in Threads :
          /\ (/\ pc[t] = "gcr_open" /\ pc'[t] = "use"
              /\ reader_ptr'[t] = NullReader) =>
                /\ reader_cache' = reader_cache
                /\ reader_cache'[call[t].path] = NoEntry
                /\ readers' = readers
          /\ (pc[t] = "use" /\ pc'[t] = "idle" /\ reader_ptr[t] = NullReader) =>
                ret'[t] = NULLPTR
          /\ (/\ pc[t] = "gcr_find" /\ pc'[t] # "gcr_find"
              /\ reader_cache[call[t].path] = NoEntry) =>
                pc'[t] = "gcr_open"
      ]_vars

\* a read_parquet_schema and a read_parquet_data of the same path both
\* returned the failure sentinel after a failed open, and the cache has no
\* entry for the path
C10_Witness ==
    \E t, u \in Threads :
        /\ pc[t] = "idle" /\ pc[u] = "idle"
        /\ call[t].op = "schema" /\ call[u].op = "data"
        /\ call[t].path = call[u].path
        /\ reader_ptr[t] = NullReader /\ reader_ptr[u] = NullReader
        /\ ret[t] = NULLPTR /\ ret[u] = NULLPTR
        /\ reader_cache[call[t].path] = NoEntry
        /\ open_count[call[t].path] = 0

\* C11: when ReadTable / ReadRowGroups fails, read_parquet_data returns the
\* failure sentinel; a TableData with rows is handed out only after a read
\* that succeeded.
C11_FailedReadReturnsSentinel ==
    \A t \in Threads :
        /\ (Planned(t) /\ plan[t].status = "failed") => ret[t] = NULLPTR
        /\ (DataDone(t) /\ ret[t].row_count > 0) => plan[t].status = "ok"

\* a read of two selected row groups failed and the call returned nullptr
C11_Witness ==
    \E t \in Threads :
        /\ Planned(t) /\ plan[t].status = "failed"
        /\ Len(plan[t].rgs) = 2
        /\ ret[t] = NULLPTR

\* C12: a read_parquet_data whose clamped window is not empty issues exactly
\* one physical read, and that read touches the selected row groups only:
\* ReadTable is used only when every row group of the file is selected.
C12_OneReadOfSelectedGroups ==
    \A t \in Threads :
        (DataRan(t) /\ ExpectedRows(TotalRows(FileOf(t)), call[t].start_row,
                                    call[t].num_rows) > 0) =>
            /\ plan[t].reads = 1
            /\ plan[t].read_groups = plan[t].rgs
            /\ plan[t].read = "ReadTable" =>
                  plan[t].rgs = [i \in 1 .. NumRowGroups(FileOf(t)) |-> i - 1]
            /\ plan[t].status = "ok" =>
                  plan[t].read_rows = Len(ConcatGroups(FileOf(t), plan[t].rgs))

\* one read of the middle row group of three, and one read of a whole file
\* of two row groups
C12_Witness ==
    \E t \in Threads :
        /\ Planned(t) /\ plan[t].reads = 1 /\ plan[t].status = "ok"
        /\ \/ (plan[t].read = "ReadRowGroups" /\ plan[t].rgs = <<1>>
                 /\ NumRowGroups(FileOf(t)) = 3)
           \/ (plan[t].read = "ReadTable" /\ plan[t].rgs = <<0, 1>>)

C17_SecondsAreDaysTimes86400 ==
    (converted.done /\ ~cell.null /\ cell.id = "DATE32") =>
        /\ converted.seconds = [day |-> cell.value, sec |-> 0]
        /\ converted.value = FormatDate([day |-> cell.value, sec |-> 0])

\* C17 holds for the days whose product fits an int
C17_WithoutOverflow ==
    (converted.done /\ ~cell.null /\ cell.id = "DATE32"
        /\ ~MulOverflows(cell.value)) =>
        /\ converted.seconds = [day |-> cell.value, sec |-> 0]
        /\ converted.value = FormatDate([day |-> cell.value, sec |-> 0])

\* thread t holds a SchemaInfo or TableData that a finished call returned
Held(t) == pc[t] = "idle" /\ ret[t].kind \in {"SchemaInfo", "TableData"}

\* C14: a SchemaInfo or TableData that was returned is not changed by later
\* calls of clear_parquet_cache, clear_all_parquet_cache or of the reading
\* functions by any thread: it holds copies and depends on no cached reader,
\* live or destroyed, until its holder lets it go.
C14_ReturnedResultsUnaffected ==
    /\ [](\A t \in Threads :
            Held(t) => (ret[t].refs = {} \/ readers[reader_ptr[t]].live))
    /\ [][\A t \in Threads :
            (Held(t) /\ pc'[t] = "idle") => ret'[t] = ret[t]]_vars

\* a thread holds a TableData with rows after another thread's clear has
\* destroyed the reader it was read from
C14_Witness ==
    \E t, u \in Threads :
        /\ Held(t) /\ ret[t].kind = "TableData" /\ ret[t].row_count > 0
        /\ ~readers[reader_ptr[t]].live
        /\ pc[u] = "idle" /\ ret[u] = Void /\ call[u].op \in {"clear", "clear_all"}

\* where a thread stands inside get_cached_reader, clear_parquet_cache or
\* clear_all_parquet_cache, and where it stands once that call has returned
InCacheCall == {"gcr_lock", "gcr_find", "gcr_open", "clr_lock", "clr_erase",
                "all_lock", "all_clear"}
HoldingLock == {"gcr_find", "gcr_open", "clr_erase", "all_clear"}

\* C15: under fair scheduling every call of get_cached_reader,
\* clear_parquet_cache and clear_all_parquet_cache returns: cache_mutex is
\* held only by a thread inside such a call, so it is released on every
\* return, and no thread waits for it forever.
C15_CacheCallsReturn ==
    /\ [](\A t \in Threads : cache_mutex = t => pc[t] \in HoldingLock)
    /\ \A t \in Threads : (pc[t] \in InCacheCall) ~> (pc[t] \notin InCacheCall)

\* a thread waits for the mutex while the other thread holds it across an
\* open, after an earlier get_cached_reader has returned a reader
C15_Witness ==
    \E t, u \in Threads :
        /\ pc[t] \in {"gcr_lock", "clr_lock", "all_lock"}
        /\ cache_mutex = u /\ pc[u] = "gcr_open"
        /\ \E p \in Paths : open_count[p] > 0

\* C16: reader_cache is looked up, inserted into, erased from and cleared
\* only by the thread that holds cache_mutex, which is held from the lookup
\* to the end of the open of a miss: at most one thread is at the lookup, in
\* an open or in a removal at a time, whatever the paths.
C16_CacheOnlyUnderLock ==
    /\ [](\A t \in Threads : pc[t] \in HoldingLock => cache_mutex = t)
    /\ [](Cardinality({t \in Threads : pc[t] \in HoldingLock}) <= 1)
    /\ [][reader_cache' # reader_cache =>
            (cache_mutex \in Threads /\ pc[cache_mutex] \in HoldingLock
                /\ pc'[cache_mutex] # pc[cache_mutex])]_vars

\* two threads miss on different paths: one is in its open, the other waits
\* for the mutex
C16_Witness ==
    \E t, u \in Threads :
        /\ pc[t] = "gcr_open" /\ cache_mutex = t
        /\ pc[u] = "gcr_lock" /\ call[u].path # call[t].path
        /\ reader_cache[call[u].path] = NoEntry

\* C18: end_row is min(start_row + num_rows, total_rows) over the
\* mathematical integers, with no 32-bit wrap of the sum, and row_count is
\* end_row - start_row without truncation.
C18_WindowEndIsExact ==
    \A t \in Threads :
        DataRan(t) =>
            LET start_row == call[t].start_row
                num_rows == call[t].num_rows
                total_rows == TotalRows(FileOf(t))
            IN  /\ plan[t].end_row =
                      (IF AddOverflows(start_row, num_rows) THEN total_rows
                       ELSE Min(start_row + num_rows, total_rows))
                /\ plan[t].end_row >= INT_MIN + start_row
                /\ DataDone(t) => ret[t].row_count = plan[t].end_row - start_row

\* C18 holds for the requests whose sum fits an int
C18_WithoutOverflow ==
    \A t \in Threads :
        (DataRan(t) /\ ~AddOverflows(call[t].start_row, call[t].num_rows)) =>
            /\ plan[t].end_row =
                  Min(call[t].start_row + call[t].num_rows, TotalRows(FileOf(t)))
            /\ DataDone(t) =>
                  ret[t].row_count = plan[t].end_row - call[t].start_row

\* one map differs from the other at path p at most
SameButAt(c1, c2, p) == \A q \in DOMAIN c1 : q # p => c1[q] = c2[q]

\* the step is one of thread t
StepOf(t) == pc'[t] # pc[t]

\* C19: a step of a call that names path p changes reader_cache at p at
\* most and destroys no reader of another path: clear_parquet_cache(p)
\* leaves every other entry as it was, and read_parquet_schema /
\* read_parquet_data on p change the map only by adding the entry of p,
\* which a hit and a failed open do not.
C19_OnlyTheNamedPath ==
    [][\A t \in Threads :
         (StepOf(t) /\ call[t].op \in {"schema", "data", "clear"}) =>
            LET p == call[t].path
            IN  /\ SameButAt(reader_cache, reader_cache', p)
                /\ \A h \in 1 .. Len(readers) :
                      (readers[h].live /\ readers[h].path # p) => readers'[h].live
                /\ call[t].op = "clear" =>
                      (pc[t] = "clr_erase" => reader_cache'[p] = NoEntry)
                /\ call[t].op \in {"schema", "data"} =>
                      /\ reader_cache'[p] # reader_cache[p] =>
                            (reader_cache[p] = NoEntry /\ pc[t] = "gcr_open"
                                /\ reader_ptr'[t] = reader_cache'[p])
                      /\ (pc[t] = "gcr_open" /\ reader_ptr'[t] = NullReader) =>
                            reader_cache' = reader_cache
                      /\ pc[t] = "gcr_find" => reader_cache' = reader_cache]_vars

\* clear_parquet_cache(p) has erased the entry of p and the entry of
\* another path is still there, its reader live
C19_Witness ==
    \E t \in Threads, q \in Paths :
        /\ pc[t] = "idle" /\ call[t].op = "clear" /\ ret[t] = Void
        /\ q # call[t].path
        /\ reader_cache[call[t].path] = NoEntry
        /\ open_count[call[t].path] > 0
        /\ reader_cache[q] # NoEntry /\ readers[reader_cache[q]].live

====
